---------------------------- MODULE Spec2Model ----------------------------
(***************************************************************************)
(* A model of xatlas-rs (src/src/lib.rs): the safe wrapper `Xatlas` around *)
(* the native xatlas atlas engine.                                         *)
(*                                                                         *)
(* Three specifications:                                                   *)
(*   SpecStatus  the status-code translator add_mesh_error_result          *)
(*   SpecDecl    the declaration marshaller (add_mesh / add_uv_mesh)       *)
(*   Spec        one wrapper's life: submissions, engine phases, the       *)
(*               progress-callback trampoline, output views, teardown      *)
(*                                                                         *)
(* The engine itself (vendor/source/xatlas/xatlas.cpp) is not among the    *)
(* sources; the operators named Engine... model it from the written        *)
(* specification and are marked so in the model map.                       *)
(***************************************************************************)
EXTENDS Integers, Sequences, FiniteSets, TLC

(***************************************************************************)
(* Bounds of the model.                                                    *)
(***************************************************************************)
\* floats in a contiguous view: 0..MaxFloats
MaxFloats == 7
\* length of an index slice: 0..MaxIdxLen
MaxIdxLen == 3
\* index values: 0..MaxIndex
MaxIndex == 1
\* faces declared / length of the per-face arrays: 0..MaxFaces
MaxFaces == 1
\* status codes handed to the translator: 0..MaxStatusCode
MaxStatusCode == 6
\* the largest mesh-count hint a caller passes
MaxHint == 2
\* meshes (and UV meshes) the engine accepts on one handle
MaxMeshes == 1
\* generations of output buffers the engine allocates on one handle
MaxGen == 2
\* closures registered on one wrapper
MaxCallbacks == 2
\* trampoline invocations during one engine call
MaxInvocations == 2
\* atlases one packing produces: 1..MaxAtlases
MaxAtlases == 2

(***************************************************************************)
(* Program constants.                                                      *)
(***************************************************************************)
\* std::mem::size_of::<f32>()
SizeOfF32 == 4
\* xatlas::IndexFormat_*
IndexFormat_UInt16 == 0
IndexFormat_UInt32 == 1
\* xatlas::ProgressCategory_*
ProgressCategory_AddMesh == 0
ProgressCategory_ComputeCharts == 1
ProgressCategory_PackCharts == 2
ProgressCategory_BuildOutputMeshes == 3
\* xatlas::ChartType_*
ChartType_Planar == 0
ChartType_Ortho == 1
ChartType_LSCM == 2
ChartType_Piecewise == 3
ChartType_Invalid == 4
\* xatlas::AddMeshError_*
AddMeshError_Success == 0
AddMeshError_Error == 1
AddMeshError_IndexOutOfRange == 2
AddMeshError_InvalidFaceVertexCount == 3
AddMeshError_InvalidIndexCount == 4

\* The `as u32` casts of slice lengths truncate only slices of 2^32 or more
\* elements; every length of the model is far below that, so they are exact.
\* the value standing for "this expression panicked: division by zero"
DivideByZero == 0 - 1

(***************************************************************************)
(* Rust values.                                                            *)
(***************************************************************************)
None == [tag |-> "None"]
Some(x) == [tag |-> "Some", v |-> x]

\* MeshData::Contiguous(&[f32]) of n floats; MeshData::WithStride of b bytes
Contiguous(n) == [tag |-> "Contiguous", len |-> n, stride |-> 0]
WithStride(b, s) == [tag |-> "WithStride", len |-> b, stride |-> s]

\* IndexData::U16(&[u16]) / IndexData::U32(&[u32]) holding the indices s
U16(s) == [tag |-> "U16", data |-> s]
U32Idx(s) == [tag |-> "U32", data |-> s]

\* Result<(), AddMeshError>, and the outcome "the call panicked"
Ok == [tag |-> "Ok", kind |-> "()"]
Err(k) == [tag |-> "Err", kind |-> k]
Panic == [tag |-> "Panic", kind |-> "panic"]

\* A raw pointer: null, or the address of `len` elements holding `data`
\* (len = 0: the dangling, well-aligned address of an empty slice).
NullPtr == [null |-> TRUE, len |-> 0, data |-> <<>>]
PtrTo(n, s) == [null |-> FALSE, len |-> n, data |-> s]

(***************************************************************************)
(* impl MeshData / impl IndexData                                          *)
(***************************************************************************)
\* the pointer is *const u8: its extent is counted in bytes
MeshData_as_ptr(d) ==
    IF d.tag = "Contiguous" THEN PtrTo(d.len * SizeOfF32, <<>>)
    ELSE PtrTo(d.len, <<>>)

MeshData_stride(d, num) ==
    IF d.tag = "Contiguous" THEN num * SizeOfF32
    ELSE d.stride

\* a slip: the record width of UVs used for every contiguous view
MeshData_count_AsPairs(d) ==
    IF d.tag = "Contiguous" THEN d.len \div 2
    ELSE IF d.stride = 0 THEN DivideByZero
    ELSE d.len \div d.stride

MeshData_count(d) ==
    IF d.tag = "Contiguous" THEN d.len \div 3
    ELSE IF d.stride = 0 THEN DivideByZero
    ELSE d.len \div d.stride

IndexData_as_ptr(d) == PtrTo(Len(d.data), d.data)

IndexData_count(d) == Len(d.data)

IndexData_format(d) ==
    IF d.tag = "U16" THEN IndexFormat_UInt16 ELSE IndexFormat_UInt32

(***************************************************************************)
(* fn add_mesh_error_result                                                *)
(***************************************************************************)
\* a slip: two status codes translated to the same error kind
add_mesh_error_result_Merged(add_mesh_error) ==
    CASE add_mesh_error = AddMeshError_Success -> Ok
      [] add_mesh_error = AddMeshError_Error -> Err("Error")
      [] add_mesh_error = AddMeshError_IndexOutOfRange -> Err("IndexOutOfRange")
      [] add_mesh_error = AddMeshError_InvalidFaceVertexCount ->
            Err("InvalidFaceVertexCount")
      [] add_mesh_error = AddMeshError_InvalidIndexCount ->
            Err("InvalidFaceVertexCount")
      [] OTHER -> Panic

add_mesh_error_result(add_mesh_error) ==
    CASE add_mesh_error = AddMeshError_Success -> Ok
      [] add_mesh_error = AddMeshError_Error -> Err("Error")
      [] add_mesh_error = AddMeshError_IndexOutOfRange -> Err("IndexOutOfRange")
      [] add_mesh_error = AddMeshError_InvalidFaceVertexCount ->
            Err("InvalidFaceVertexCount")
      [] add_mesh_error = AddMeshError_InvalidIndexCount ->
            Err("InvalidIndexCount")
      [] OTHER -> Panic

(***************************************************************************)
(* The declarations a caller can build (bounded).                          *)
(***************************************************************************)
Strides == {0, 8, 12}
StrideByteLens == {0, 24}
MeshDatas ==
    {Contiguous(n) : n \in 0..MaxFloats}
        \cup {WithStride(b, s) : b \in StrideByteLens, s \in Strides}

\* The engine's checks ask whether some index is out of range and how many
\* indices there are, not in which order they come: one sequence per
\* multiset of indices, the nondecreasing one.
IndexSeqs ==
    {s \in UNION {[1..n -> 0..MaxIndex] : n \in 0..MaxIdxLen} :
        \A i \in 1..(Len(s) - 1) : s[i] <= s[i + 1]}
IndexDatas == {U16(s) : s \in IndexSeqs} \cup {U32Idx(s) : s \in IndexSeqs}
OptIndexDatas == {None} \cup {Some(d) : d \in IndexDatas}

\* per-face vertex counts: 2 is below the minimum, 3 is a triangle
FaceVertexCounts == UNION {[1..n -> {2, 3}] : n \in 0..MaxFaces}
OptFaceVertexCounts == {None} \cup {Some(s) : s \in FaceVertexCounts}

\* a &[u32] of n face materials (the values play no part in marshalling)
Materials(n) == [len |-> n]

\* the optional fields that do not decide the engine's verdict, varied together
OptFields ==
    { [normal |-> None, uv |-> None, ignore |-> None, material |-> None],
      [normal |-> Some(Contiguous(6)), uv |-> Some(Contiguous(4)),
       ignore |-> Some(TRUE), material |-> Some(Materials(1))],
      [normal |-> Some(Contiguous(0)), uv |-> Some(WithStride(0, 8)),
       ignore |-> Some(FALSE), material |-> Some(Materials(0))] }

Epsilon == "1.1920929e-7"

MeshDecls ==
    { [vertex_position_data |-> p,
       vertex_normal_data |-> o.normal,
       vertex_uv_data |-> o.uv,
       face_ignore_data |-> o.ignore,
       face_material_data |-> o.material,
       face_vertex_count |-> f,
       index_data |-> i,
       face_count |-> c,
       epsilon |-> Epsilon] :
        p \in MeshDatas, o \in OptFields, f \in OptFaceVertexCounts,
        i \in OptIndexDatas, c \in 0..MaxFaces }

UvMeshDecls ==
    { [vertex_uv_data |-> u, face_material_data |-> m, index_data |-> i] :
        u \in {None} \cup {Some(d) : d \in MeshDatas},
        m \in {None, Some(Materials(0)), Some(Materials(1))},
        i \in OptIndexDatas }

\* impl Default for MeshDecl
MeshDecl_default ==
    [vertex_position_data |-> Contiguous(0),
     vertex_normal_data |-> None,
     vertex_uv_data |-> None,
     face_ignore_data |-> None,
     face_material_data |-> None,
     face_vertex_count |-> None,
     index_data |-> None,
     face_count |-> 0,
     epsilon |-> Epsilon]

(***************************************************************************)
(* The native declarations built by add_mesh_with_mesh_count_hint and      *)
(* add_uv_mesh (the struct literals, field by field).                      *)
(***************************************************************************)
NativeMeshDecl(mesh_decl) ==
    [vertexPositionData |-> MeshData_as_ptr(mesh_decl.vertex_position_data),
     vertexNormalData |->
        IF mesh_decl.vertex_normal_data = None THEN NullPtr
        ELSE MeshData_as_ptr(mesh_decl.vertex_normal_data.v),
     vertexUvData |->
        IF mesh_decl.vertex_uv_data = None THEN NullPtr
        ELSE MeshData_as_ptr(mesh_decl.vertex_uv_data.v),
     indexData |->
        IF mesh_decl.index_data = None THEN NullPtr
        ELSE IndexData_as_ptr(mesh_decl.index_data.v),
     \* Some(ref d) => d: the address of the one bool
     faceIgnoreData |->
        IF mesh_decl.face_ignore_data = None THEN NullPtr
        ELSE PtrTo(1, <<mesh_decl.face_ignore_data.v>>),
     faceMaterialData |->
        IF mesh_decl.face_material_data = None THEN NullPtr
        ELSE PtrTo(mesh_decl.face_material_data.v.len, <<>>),
     faceVertexCount |->
        IF mesh_decl.face_vertex_count = None THEN NullPtr
        ELSE PtrTo(Len(mesh_decl.face_vertex_count.v),
                   mesh_decl.face_vertex_count.v),
     vertexCount |-> MeshData_count(mesh_decl.vertex_position_data),
     vertexPositionStride |-> MeshData_stride(mesh_decl.vertex_position_data, 3),
     vertexNormalStride |->
        IF mesh_decl.vertex_normal_data = None THEN 0
        ELSE MeshData_stride(mesh_decl.vertex_normal_data.v, 3),
     vertexUvStride |->
        IF mesh_decl.vertex_uv_data = None THEN 0
        ELSE MeshData_stride(mesh_decl.vertex_uv_data.v, 2),
     indexCount |->
        IF mesh_decl.index_data = None THEN 0
        ELSE IndexData_count(mesh_decl.index_data.v),
     indexOffset |-> 0,
     faceCount |-> mesh_decl.face_count,
     indexFormat |->
        IF mesh_decl.index_data = None THEN IndexFormat_UInt16
        ELSE IndexData_format(mesh_decl.index_data.v),
     epsilon |-> mesh_decl.epsilon]

\* the struct literal panics where an expression in it divides by zero
NativeMeshDeclPanics(mesh_decl) ==
    MeshData_count(mesh_decl.vertex_position_data) = DivideByZero

NativeUvMeshDecl(decl) ==
    [vertexUvData |->
        IF decl.vertex_uv_data = None THEN NullPtr
        ELSE MeshData_as_ptr(decl.vertex_uv_data.v),
     indexData |->
        IF decl.index_data = None THEN NullPtr
        ELSE IndexData_as_ptr(decl.index_data.v),
     faceMaterialData |->
        IF decl.face_material_data = None THEN NullPtr
        ELSE PtrTo(decl.face_material_data.v.len, <<>>),
     vertexCount |->
        IF decl.vertex_uv_data = None THEN 0
        ELSE MeshData_count(decl.vertex_uv_data.v),
     vertexStride |->
        IF decl.vertex_uv_data = None THEN 0
        ELSE MeshData_stride(decl.vertex_uv_data.v, 2),
     indexCount |->
        IF decl.index_data = None THEN 0
        ELSE IndexData_count(decl.index_data.v),
     indexOffset |-> 0,
     indexFormat |->
        IF decl.index_data = None THEN IndexFormat_UInt16
        ELSE IndexData_format(decl.index_data.v)]

NativeUvMeshDeclPanics(decl) ==
    /\ decl.vertex_uv_data # None
    /\ MeshData_count(decl.vertex_uv_data.v) = DivideByZero

(***************************************************************************)
(* The engine's submission checks (xatlas::AddMesh / xatlas::AddUvMesh),   *)
(* from the written specification: a submission is rejected when an index  *)
(* is not below the vertex count, when the index count is not divisible by *)
(* three and no per-face vertex counts are given, or when a per-face       *)
(* vertex count is below 3.  Absent indices are the implicit sequence      *)
(* 0, 1, .., vertexCount-1.  The specification gives no precedence among   *)
(* the checks, so a declaration with several defects gets any one of them. *)
(***************************************************************************)
\* what the engine finds at element i (1-based) behind pointer p: the
\* element, or anything at all past the end of the caller's slice
EngineRead(p, i, anything) ==
    IF i <= p.len /\ i <= Len(p.data) THEN {p.data[i]} ELSE anything

EngineHasIndices(n) == ~n.indexData.null /\ n.indexCount > 0

EngineIndexCount(n) ==
    IF EngineHasIndices(n) THEN n.indexCount ELSE n.vertexCount

EngineIndexDefect(n) ==
    /\ EngineHasIndices(n)
    /\ \E i \in 1..n.indexCount :
          \E x \in EngineRead(n.indexData, i, 0..MaxIndex) : x >= n.vertexCount

\* the defects the engine can report for mesh declaration n, as status codes
EngineMeshDefects(n) ==
    (IF EngineIndexDefect(n) THEN {AddMeshError_IndexOutOfRange} ELSE {})
    \cup (IF n.faceVertexCount.null /\ EngineIndexCount(n) % 3 # 0
          THEN {AddMeshError_InvalidIndexCount} ELSE {})
    \cup (IF /\ ~n.faceVertexCount.null
             /\ \E f \in 1..n.faceCount :
                   \E c \in EngineRead(n.faceVertexCount, f, {2, 3}) : c < 3
          THEN {AddMeshError_InvalidFaceVertexCount} ELSE {})

\* a read past the caller's per-face array may also find every count valid
EngineMeshMayPass(n) ==
    /\ ~EngineIndexDefect(n)
    /\ ~(n.faceVertexCount.null /\ EngineIndexCount(n) % 3 # 0)
    /\ \/ n.faceVertexCount.null
       \/ \A f \in 1..n.faceCount :
             \E c \in EngineRead(n.faceVertexCount, f, {2, 3}) : c >= 3

EngineAddMesh(n) ==
    EngineMeshDefects(n)
        \cup (IF EngineMeshMayPass(n) THEN {AddMeshError_Success} ELSE {})

EngineAddUvMesh(n) ==
    LET defects ==
            (IF EngineIndexDefect(n) THEN {AddMeshError_IndexOutOfRange} ELSE {})
            \cup (IF EngineIndexCount(n) % 3 # 0
                  THEN {AddMeshError_InvalidIndexCount} ELSE {})
    IN  IF defects = {} THEN {AddMeshError_Success} ELSE defects

(***************************************************************************)
(* Xatlas::add_mesh_with_mesh_count_hint, Xatlas::add_mesh and             *)
(* Xatlas::add_uv_mesh as functions of the declaration: the outcomes       *)
(* [native, hint, status, ret] the call can have.  A panic while the       *)
(* struct literal is built ends the call before the engine is reached.     *)
(***************************************************************************)
NoNative == [null |-> TRUE]
NoStatus == 0 - 1

add_mesh_with_mesh_count_hint(mesh_decl, mesh_count_hint) ==
    IF NativeMeshDeclPanics(mesh_decl)
    THEN {[native |-> NoNative, hint |-> mesh_count_hint,
           status |-> NoStatus, ret |-> Panic]}
    ELSE LET decl == NativeMeshDecl(mesh_decl)
         IN  {[native |-> decl, hint |-> mesh_count_hint, status |-> result,
               ret |-> add_mesh_error_result(result)] :
                 result \in EngineAddMesh(decl)}

add_mesh(mesh_decl) == add_mesh_with_mesh_count_hint(mesh_decl, 0)

add_uv_mesh(decl) ==
    IF NativeUvMeshDeclPanics(decl)
    THEN {[native |-> NoNative, hint |-> 0, status |-> NoStatus, ret |-> Panic]}
    ELSE LET native == NativeUvMeshDecl(decl)
         IN  {[native |-> native, hint |-> 0, status |-> result,
               ret |-> add_mesh_error_result(result)] :
                 result \in EngineAddUvMesh(native)}

(***************************************************************************)
(* State.                                                                  *)
(***************************************************************************)
VARIABLES
    seen,   \* SpecStatus: the (code, result) pairs the translator has produced
    sub,    \* SpecDecl: the last submission [op, decl, native, hint, status, ret]
    \* Spec: one wrapper and its engine
    wrapper,            \* "alive", "dropped", or "aborted" (the process died)
    handle,             \* Xatlas::handle, the address Create returned
    self_progress_callback,  \* self.progress_callback: 0 (None) or Some(box)
    boxes,              \* the closure allocations: [state, frees] per box
    engine,             \* the engine's context behind the handle, with
                        \* what has been submitted, joined and computed
    atlas,              \* the fields of *handle the wrapper reads
    pc,                 \* where the one thread is: idle or inside a call
    lastCall,           \* the last trampoline invocation of the running call
    ret,                \* what the last accessor call returned
    held,               \* the borrowed view the caller still holds
    lastPack            \* the PackOptions of the most recent packing call

lifeVars ==
    <<wrapper, handle, self_progress_callback, boxes, engine, atlas, pc, lastCall,
      ret, held, lastPack>>

NoSubmission ==
    [op |-> "none", decl |-> None, native |-> NoNative, hint |-> 0,
     status |-> NoStatus, ret |-> Ok]

(***************************************************************************)
(* SpecStatus: the translator applied to status codes, known and unknown.  *)
(***************************************************************************)
StatusCodes == 0..MaxStatusCode

TranslateStatus ==
    /\ \E code \in StatusCodes :
          seen' = seen \cup
                    {[code |-> code, result |-> add_mesh_error_result(code)]}
    /\ UNCHANGED <<sub, lifeVars>>

(***************************************************************************)
(* SpecDecl: one submission of any declaration to a fresh wrapper.         *)
(***************************************************************************)
SubmitMesh ==
    /\ sub.op = "none"
    /\ \E d \in MeshDecls : \E o \in add_mesh(d) :
          sub' = [op |-> "add_mesh", decl |-> d, native |-> o.native,
                  hint |-> o.hint, status |-> o.status, ret |-> o.ret]
    /\ UNCHANGED <<seen, lifeVars>>

SubmitMeshWithHint ==
    /\ sub.op = "none"
    /\ \E d \in MeshDecls : \E o \in add_mesh_with_mesh_count_hint(d, MaxHint) :
          sub' = [op |-> "add_mesh_with_mesh_count_hint", decl |-> d,
                  native |-> o.native, hint |-> o.hint, status |-> o.status,
                  ret |-> o.ret]
    /\ UNCHANGED <<seen, lifeVars>>

SubmitUvMesh ==
    /\ sub.op = "none"
    /\ \E d \in UvMeshDecls : \E o \in add_uv_mesh(d) :
          sub' = [op |-> "add_uv_mesh", decl |-> d, native |-> o.native,
                  hint |-> o.hint, status |-> o.status, ret |-> o.ret]
    /\ UNCHANGED <<seen, lifeVars>>

(***************************************************************************)
(* Properties of the translator (SpecStatus).                              *)
(***************************************************************************)
KnownStatus ==
    {AddMeshError_Success, AddMeshError_Error, AddMeshError_IndexOutOfRange,
     AddMeshError_InvalidFaceVertexCount, AddMeshError_InvalidIndexCount}
ErrorKinds ==
    {"Error", "IndexOutOfRange", "InvalidFaceVertexCount", "InvalidIndexCount"}

\* C5: add_mesh_error_result maps the five status codes one-to-one onto the
\* result type: Success (and only Success) gives Ok, each other known code
\* gives an Err of one of the four kinds, no two codes give the same result,
\* and a code outside the five gives no result: the call panics.
C5_StatusTranslationOneToOne ==
    \A a \in seen :
        /\ (a.code = AddMeshError_Success) <=> (a.result = Ok)
        /\ a.code \in KnownStatus \ {AddMeshError_Success} =>
              a.result.tag = "Err" /\ a.result.kind \in ErrorKinds
        /\ (a.code \notin KnownStatus) <=> (a.result = Panic)
        /\ \A b \in seen :
              (a.result = b.result /\ a.result # Panic) => a.code = b.code

\* every code, the five known ones and the unknown ones, has been translated
C5_Witness ==
    /\ {a.code : a \in seen} = StatusCodes
    /\ \E a \in seen : a.code \notin KnownStatus
    /\ {a.result.kind : a \in {b \in seen : b.result.tag = "Err"}} = ErrorKinds

(***************************************************************************)
(* Properties of the marshaller (SpecDecl).                                *)
(***************************************************************************)
IsMeshSubmission == sub.op \in {"add_mesh", "add_mesh_with_mesh_count_hint"}
Marshalled == sub.op # "none" /\ sub.ret # Panic

\* The declaration as its caller reads it: the number of whole records in
\* the position view, the explicit indices, the index count (the implicit
\* sequence 0..vertex count - 1 when there are no indices).
DeclVertexCount(d) ==
    IF d.vertex_position_data.tag = "Contiguous"
    THEN d.vertex_position_data.len \div 3
    ELSE d.vertex_position_data.len \div d.vertex_position_data.stride
DeclVertexCountDefined(d) ==
    d.vertex_position_data.tag = "WithStride" =>
        d.vertex_position_data.stride # 0
DeclIndices(d) == IF d.index_data = None THEN <<>> ELSE d.index_data.v.data
DeclIndexCount(d) ==
    IF DeclIndices(d) = <<>> THEN DeclVertexCount(d) ELSE Len(DeclIndices(d))
DeclIndexOutOfRange(d) ==
    \E i \in 1..Len(DeclIndices(d)) : DeclIndices(d)[i] >= DeclVertexCount(d)
DeclBadIndexCount(d) ==
    d.face_vertex_count = None /\ DeclIndexCount(d) % 3 # 0
\* a count below 3 among the face_count faces the declaration declares
DeclBadFaceVertexCount(d) ==
    /\ d.face_vertex_count # None
    /\ \E f \in 1..d.face_count :
          f <= Len(d.face_vertex_count.v) /\ d.face_vertex_count.v[f] < 3
DeclDefects(d) ==
    (IF DeclIndexOutOfRange(d) THEN {"IndexOutOfRange"} ELSE {})
    \cup (IF DeclBadIndexCount(d) THEN {"InvalidIndexCount"} ELSE {})
    \cup (IF DeclBadFaceVertexCount(d) THEN {"InvalidFaceVertexCount"} ELSE {})
\* the per-face array is as long as its documentation requires
DeclFaceArrayLongEnough(d) ==
    d.face_vertex_count # None => d.face_count <= Len(d.face_vertex_count.v)

EngineVertexBytes(count, stride, width) ==
    IF count = 0 THEN 0 ELSE (count - 1) * stride + width * SizeOfF32
\* Faces the engine walks: faceCount with per-face counts, else triangles.
EngineFaceCount(n) ==
    IF n.faceVertexCount.null THEN EngineIndexCount(n) \div 3 ELSE n.faceCount

\* a pointer is null, or addresses at least one element and at least `need`
PtrCovers(p, need) == p.null \/ (p.len > 0 /\ p.len >= need)

\* C7: in the native declaration every absent optional field is a null
\* pointer with count/stride 0, and no pointer is non-null while addressing
\* zero elements or fewer elements than the engine reads through it.
C7_NullOrCoveringPointers ==
    Marshalled =>
        LET d == sub.decl
            n == sub.native
        IN  IF sub.op = "add_uv_mesh"
            THEN /\ d.vertex_uv_data = None =>
                        n.vertexUvData.null /\ n.vertexCount = 0
                                            /\ n.vertexStride = 0
                 /\ d.index_data = None => n.indexData.null /\ n.indexCount = 0
                 /\ d.face_material_data = None => n.faceMaterialData.null
                 /\ PtrCovers(n.vertexUvData,
                        EngineVertexBytes(n.vertexCount, n.vertexStride, 2))
                 /\ PtrCovers(n.indexData, n.indexCount)
                 /\ PtrCovers(n.faceMaterialData, EngineIndexCount(n) \div 3)
            ELSE /\ d.vertex_normal_data = None =>
                        n.vertexNormalData.null /\ n.vertexNormalStride = 0
                 /\ d.vertex_uv_data = None =>
                        n.vertexUvData.null /\ n.vertexUvStride = 0
                 /\ d.index_data = None => n.indexData.null /\ n.indexCount = 0
                 /\ d.face_ignore_data = None => n.faceIgnoreData.null
                 /\ d.face_material_data = None => n.faceMaterialData.null
                 /\ d.face_vertex_count = None => n.faceVertexCount.null
                 /\ PtrCovers(n.vertexPositionData,
                        EngineVertexBytes(n.vertexCount,
                                          n.vertexPositionStride, 3))
                 /\ PtrCovers(n.vertexNormalData,
                        EngineVertexBytes(n.vertexCount,
                                          n.vertexNormalStride, 3))
                 /\ PtrCovers(n.vertexUvData,
                        EngineVertexBytes(n.vertexCount, n.vertexUvStride, 2))
                 /\ PtrCovers(n.indexData, n.indexCount)
                 /\ PtrCovers(n.faceIgnoreData, EngineFaceCount(n))
                 /\ PtrCovers(n.faceMaterialData, EngineFaceCount(n))
                 /\ PtrCovers(n.faceVertexCount, EngineFaceCount(n))

\* C8: stride and count are derived from the view: 12 bytes for contiguous
\* positions and normals, 8 for contiguous UVs, the caller's stride for a
\* custom-stride view; the vertex count is floats / 3 for positions in
\* add_mesh and floats / 2 for UVs in add_uv_mesh, byte length / stride for
\* a custom-stride view; the index count is the length of the index slice
\* and the index format is that of its variant.
DerivedStride(data, width) ==
    IF data.tag = "Contiguous" THEN width * 4 ELSE data.stride
DerivedCount(data, width) ==
    IF data.tag = "Contiguous" THEN data.len \div width
    ELSE data.len \div data.stride
DerivedIndices(d, n) ==
    d.index_data # None =>
        /\ n.indexCount = Len(d.index_data.v.data)
        /\ d.index_data.v.tag = "U16" => n.indexFormat = IndexFormat_UInt16
        /\ d.index_data.v.tag = "U32" => n.indexFormat = IndexFormat_UInt32
C8_DerivedCountsAndStrides ==
    Marshalled =>
        LET d == sub.decl
            n == sub.native
        IN  IF sub.op = "add_uv_mesh"
            THEN /\ d.vertex_uv_data # None =>
                        /\ n.vertexStride = DerivedStride(d.vertex_uv_data.v, 2)
                        /\ n.vertexCount = DerivedCount(d.vertex_uv_data.v, 2)
                 /\ DerivedIndices(d, n)
            ELSE /\ n.vertexPositionStride =
                        DerivedStride(d.vertex_position_data, 3)
                 /\ n.vertexCount = DerivedCount(d.vertex_position_data, 3)
                 /\ d.vertex_normal_data # None =>
                        n.vertexNormalStride =
                            DerivedStride(d.vertex_normal_data.v, 3)
                 /\ d.vertex_uv_data # None =>
                        n.vertexUvStride = DerivedStride(d.vertex_uv_data.v, 2)
                 /\ DerivedIndices(d, n)

(***************************************************************************)
(* Option structs and their conversion to the native layout.               *)
(***************************************************************************)
\* impl Default for PackOptions
PackOptions_default ==
    [max_chart_size |-> 0, padding |-> 0, texels_per_unit |-> "0.0",
     resolution |-> 0, bilinear |-> TRUE, block_align |-> FALSE,
     brute_force |-> FALSE, create_image |-> FALSE,
     rotate_charts_to_axis |-> TRUE, rotate_charts |-> TRUE]

\* the pack options a caller passes: the default, with or without an image
PackOptionsSet ==
    {[PackOptions_default EXCEPT !.create_image = b] : b \in BOOLEAN}

\* a slip: the image flag taken from a neighbouring field
PackOptions_convert_ImageFromBilinear(self) ==
    [maxChartSize |-> self.max_chart_size, padding |-> self.padding,
     texelsPerUnit |-> self.texels_per_unit, resolution |-> self.resolution,
     bilinear |-> self.bilinear, blockAlign |-> self.block_align,
     bruteForce |-> self.brute_force, createImage |-> self.bilinear,
     rotateChartsToAxis |-> self.rotate_charts_to_axis,
     rotateCharts |-> self.rotate_charts]

PackOptions_convert(self) ==
    [maxChartSize |-> self.max_chart_size, padding |-> self.padding,
     texelsPerUnit |-> self.texels_per_unit, resolution |-> self.resolution,
     bilinear |-> self.bilinear, blockAlign |-> self.block_align,
     bruteForce |-> self.brute_force, createImage |-> self.create_image,
     rotateChartsToAxis |-> self.rotate_charts_to_axis,
     rotateCharts |-> self.rotate_charts]

(***************************************************************************)
(* The handle's output, as the engine publishes it (from the written       *)
(* specification): a fresh handle is empty; every chart computation frees  *)
(* the previous output; every packing frees the previous output and        *)
(* publishes new buffers and counts; the image exists only when the        *)
(* packing asked for it.  A buffer is [null, gen, len]: the generation     *)
(* that allocated it and the number of elements it holds.                  *)
(***************************************************************************)
NullBuf == [null |-> TRUE, gen |-> 0, len |-> 0]
Buf(g, n) == [null |-> FALSE, gen |-> g, len |-> n]

EmptyAtlas ==
    [width |-> 0, height |-> 0, atlasCount |-> 0, chartCount |-> 0,
     meshCount |-> 0, meshes |-> <<>>, meshesNull |-> TRUE,
     utilization |-> NullBuf, image |-> NullBuf]

\* the k-th shape of output mesh the model's engine produces in generation g
EngineMesh(g, k) ==
    [chartCount |-> k, vertexCount |-> 3 + k, indexCount |-> 3 * k,
     chartArray |->
        [c \in 1..k |->
            [faceCount |-> c, faceArray |-> Buf(g, c), atlasIndex |-> c - 1,
             type_ |-> IF c = 1 THEN ChartType_Planar ELSE ChartType_LSCM,
             material |-> 0]],
     vertexArray |-> Buf(g, 3 + k),
     indexArray |-> Buf(g, 3 * k)]

EnginePacked(g, nMeshes, k, createImage) ==
    [width |-> 2 * k, height |-> k + 1, atlasCount |-> k,
     chartCount |-> nMeshes * k, meshCount |-> nMeshes,
     meshes |-> [i \in 1..nMeshes |-> EngineMesh(g, k)],
     meshesNull |-> FALSE,
     utilization |-> Buf(g, k),
     image |-> IF createImage THEN Buf(g, k * (2 * k) * (k + 1)) ELSE NullBuf]

\* xatlas::Destroy(handle)
EngineDestroy(e, h) ==
    [e EXCEPT !.live = FALSE, !.destroyed = Append(@, h),
              !.progressFunc = FALSE, !.progressUserData = 0]

\* xatlas::SetProgressCallback(handle, func, user_data)
EngineSetProgressCallback(e, user_data) ==
    [e EXCEPT !.usedAfterDestroy = @ \/ ~e.live,
              !.progressFunc = TRUE, !.progressUserData = user_data]

\* any other engine call or field read through the handle
EngineUse(e) == [e EXCEPT !.usedAfterDestroy = @ \/ ~e.live]

(***************************************************************************)
(* The output accessors.                                                   *)
(***************************************************************************)
\* a borrowed slice of n elements of buffer b
Slice(b, n) == [gen |-> b.gen, len |-> n]

Xatlas_utilization(a) ==
    IF a.utilization.null THEN None
    ELSE Some(Slice(a.utilization, a.atlasCount))

\* a slip: the image taken to be one atlas large
Xatlas_image_OneAtlas(a) ==
    IF a.image.null THEN None
    ELSE Some(Slice(a.image, a.width * a.height))

\* The product is computed in u32 (it wraps at 2^32 in a release build and
\* panics in a debug build); the model's extents are far below that.
Xatlas_image(a) ==
    IF a.image.null THEN None
    ELSE Some(Slice(a.image, a.atlasCount * a.width * a.height))

ChartType_of(type_) ==
    CASE type_ = ChartType_Planar -> "Planar"
      [] type_ = ChartType_Ortho -> "Ortho"
      [] type_ = ChartType_LSCM -> "LSCM"
      [] type_ = ChartType_Piecewise -> "Piecewise"
      [] type_ = ChartType_Invalid -> "Invalid"
      [] OTHER -> "unreachable"

\* meshes() where the handle's mesh array is not null: chart and vertex
\* records are copied into owned vectors, index and face arrays are borrowed
Xatlas_meshes(a) ==
    [i \in 1..a.meshCount |->
        LET mesh == a.meshes[i]
        IN  [index_array |-> Slice(mesh.indexArray, mesh.indexCount),
             chart_array |->
                [c \in 1..mesh.chartCount |->
                    LET chart == mesh.chartArray[c]
                    IN  [face_array |-> Slice(chart.faceArray, chart.faceCount),
                         atlas_index |-> chart.atlasIndex,
                         type_ |-> ChartType_of(chart.type_),
                         material |-> chart.material]],
             vertex_array |-> [len |-> mesh.vertexCount]]]

(***************************************************************************)
(* The callback trampoline.                                                *)
(***************************************************************************)
ProgressCategory_of(category) ==
    CASE category = ProgressCategory_AddMesh -> "AddMesh"
      [] category = ProgressCategory_ComputeCharts -> "ComputeCharts"
      [] category = ProgressCategory_PackCharts -> "PackCharts"
      [] category = ProgressCategory_BuildOutputMeshes -> "BuildOutputMeshes"
      [] OTHER -> "unreachable"

\* a slip: the recovered box is dropped at the end of the call
progress_callback_Consuming(category, progress, user_data, closure_result) ==
    [closure |-> user_data, calls |-> 1,
     category |-> ProgressCategory_of(category), progress |-> progress,
     result |-> closure_result, dropped |-> TRUE]

\* unsafe extern "C" fn progress_callback: what one invocation does, given
\* the boolean the closure returns: which box it recovers from user_data,
\* how often and with what it calls the closure, what it returns, and
\* whether it drops the box (mem::forget: it does not)
progress_callback(category, progress, user_data, closure_result) ==
    [closure |-> user_data, calls |-> 1,
     category |-> ProgressCategory_of(category), progress |-> progress,
     result |-> closure_result, dropped |-> FALSE]

(***************************************************************************)
(* Spec: one wrapper from Xatlas::new() to teardown.                       *)
(*                                                                         *)
(* Every method borrows the wrapper (&self or &mut self), so it runs only  *)
(* while the wrapper is alive and no other call is in progress.  The       *)
(* engine calls are synchronous; while one runs the engine may invoke the  *)
(* registered trampoline.  The views meshes(), image() and utilization()   *)
(* return carry the lifetime 'x of Xatlas<'x>, not that of the &self       *)
(* borrow, so the caller may keep them across later calls and across the   *)
(* wrapper's drop.                                                         *)
(***************************************************************************)
\* xatlas::Create()
xatlas_Create == "atlas"

Idle ==
    [op |-> "idle", createImage |-> FALSE, calls |-> 0, user_data |-> 0]
NoCall ==
    [made |-> FALSE,
     input |-> [category |-> 0, progress |-> 0, user_data |-> 0,
                closure_result |-> TRUE],
     did |-> [closure |-> 0, calls |-> 0, category |-> "none", progress |-> 0,
              result |-> TRUE, dropped |-> FALSE],
     useAfterFree |-> FALSE]
NoRet == [op |-> "none", val |-> 0]
\* The caller keeps the view it was last given (an earlier one it lets go;
\* generation of the buffer it points into).
NoView == [kind |-> "none", gen |-> 0]
Borrowed(kind, slice) == [kind |-> kind, gen |-> slice.gen]
Boxes == 1..MaxCallbacks
Percentages == {0, 100}

PhaseOps == {"add_mesh_join", "compute_charts", "pack_charts", "generate"}
\* the categories the engine reports during a call
PhaseCategories(op) ==
    CASE op = "add_mesh_join" -> {ProgressCategory_AddMesh}
      [] op = "compute_charts" -> {ProgressCategory_ComputeCharts}
      [] op = "pack_charts" ->
            {ProgressCategory_PackCharts, ProgressCategory_BuildOutputMeshes}
      [] OTHER ->
            {ProgressCategory_ComputeCharts, ProgressCategory_PackCharts,
             ProgressCategory_BuildOutputMeshes}

\* the declarations submitted in Spec: a triangle, a triangle whose indices
\* exceed its one vertex, a position view of stride 0
Triangle ==
    [MeshDecl_default EXCEPT !.vertex_position_data = Contiguous(9),
                             !.index_data = Some(U32Idx(<<0, 1, 2>>))]
SampleMeshDecls ==
    {Triangle,
     [Triangle EXCEPT !.vertex_position_data = Contiguous(3)],
     [Triangle EXCEPT !.vertex_position_data = WithStride(36, 0)]}
SampleUvMeshDecls ==
    {[vertex_uv_data |-> Some(Contiguous(9)), face_material_data |-> None,
      index_data |-> Some(U16(<<0, 1, 2>>))],
     [vertex_uv_data |-> Some(Contiguous(6)), face_material_data |-> None,
      index_data |-> Some(U16(<<0, 1, 2>>))]}

FreeBox(bx, b) ==
    IF b = 0 THEN bx
    ELSE [bx EXCEPT ![b] = [state |-> "freed", frees |-> @.frees + 1]]
AllocatedBoxes == {b \in Boxes : boxes[b].state # "unallocated"}

Callable == wrapper = "alive" /\ pc.op = "idle"

\* width(), height(), atlas_count(), chart_count(), mesh_count(), called
\* one after the other
ScalarAccessors == {"width", "height", "atlasCount", "chartCount", "meshCount"}
Accessor ==
    /\ Callable
    /\ ret' = [op |-> "scalars", val |-> [f \in ScalarAccessors |-> atlas[f]]]
    /\ engine' = EngineUse(engine)
    /\ UNCHANGED <<seen, sub, wrapper, handle, self_progress_callback, boxes,
                   atlas, pc, lastCall, held, lastPack>>

utilization ==
    /\ Callable
    /\ LET v == Xatlas_utilization(atlas)
       IN  /\ ret' = [op |-> "utilization", val |-> v]
           /\ held' = IF v = None THEN held ELSE Borrowed("utilization", v.v)
    /\ engine' = EngineUse(engine)
    /\ UNCHANGED <<seen, sub, wrapper, handle, self_progress_callback, boxes,
                   atlas, pc, lastCall, lastPack>>

image ==
    /\ Callable
    /\ LET v == Xatlas_image(atlas)
       IN  /\ ret' = [op |-> "image", val |-> v]
           /\ held' = IF v = None THEN held ELSE Borrowed("image", v.v)
    /\ engine' = EngineUse(engine)
    /\ UNCHANGED <<seen, sub, wrapper, handle, self_progress_callback, boxes,
                   atlas, pc, lastCall, lastPack>>

\* meshes() on a handle that has output meshes
meshes ==
    /\ Callable
    /\ ~atlas.meshesNull
    /\ LET v == Xatlas_meshes(atlas)
       IN  /\ ret' = [op |-> "meshes", val |-> v]
           /\ held' = IF v = <<>> THEN held
                      ELSE Borrowed("meshes", v[1].index_array)
    /\ engine' = EngineUse(engine)
    /\ UNCHANGED <<seen, sub, wrapper, handle, self_progress_callback, boxes,
                   atlas, pc, lastCall, lastPack>>

\* meshes() on a handle whose mesh array is null (no packing has published
\* one): slice::from_raw_parts(null, 0) is undefined behaviour.  A build
\* without the standard library's precondition checks yields an empty
\* vector; a build with them aborts the process.
meshes_null ==
    /\ Callable
    /\ atlas.meshesNull
    /\ \/ /\ ret' = [op |-> "meshes", val |-> <<>>]
          /\ engine' = EngineUse(engine)
          /\ UNCHANGED wrapper
       \/ /\ wrapper' = "aborted"
          /\ UNCHANGED <<ret, engine>>
    /\ UNCHANGED <<seen, sub, handle, self_progress_callback, boxes, atlas, pc,
                   lastCall, held, lastPack>>

\* add_mesh / add_mesh_with_mesh_count_hint: the engine keeps the mesh when
\* it accepts the declaration
SubmitTo(op, outcomes) ==
    /\ Callable
    /\ engine.meshes + engine.uvMeshes < MaxMeshes
    /\ \E o \in outcomes :
          /\ ret' = [op |-> op, val |-> o.ret]
          /\ engine' =
                IF o.ret = Panic THEN engine
                ELSE IF o.status # AddMeshError_Success THEN EngineUse(engine)
                ELSE IF op = "add_uv_mesh"
                     THEN [EngineUse(engine) EXCEPT !.uvMeshes = @ + 1]
                     ELSE [EngineUse(engine) EXCEPT
                              !.meshes = @ + 1,
                              !.unjoined = @ \/ o.hint > 0]
    /\ UNCHANGED <<seen, sub, wrapper, handle, self_progress_callback, boxes,
                   atlas, pc, lastCall, held, lastPack>>

AddMesh == \E d \in SampleMeshDecls : SubmitTo("add_mesh", add_mesh(d))

AddMeshWithHint ==
    \E d \in SampleMeshDecls :
        SubmitTo("add_mesh_with_mesh_count_hint",
                 add_mesh_with_mesh_count_hint(d, MaxHint))

AddUvMesh == \E d \in SampleUvMeshDecls : SubmitTo("add_uv_mesh", add_uv_mesh(d))

\* the wrapper enters an engine call
Enter(op, createImage) ==
    /\ Callable
    /\ pc' = [Idle EXCEPT !.op = op, !.createImage = createImage]
    /\ engine' = EngineUse(engine)
    /\ ret' = NoRet
    /\ lastCall' = NoCall
    /\ UNCHANGED <<seen, sub, wrapper, handle, self_progress_callback, boxes,
                   atlas, held>>

add_mesh_join == Enter("add_mesh_join", FALSE) /\ UNCHANGED lastPack

compute_charts ==
    /\ engine.gen < MaxGen
    /\ Enter("compute_charts", FALSE)
    /\ UNCHANGED lastPack

RecordPack(pack_options) ==
    lastPack' = [called |-> TRUE, options |-> pack_options]

pack_charts ==
    /\ engine.gen < MaxGen
    /\ \E pack_options \in PackOptionsSet :
          /\ Enter("pack_charts", PackOptions_convert(pack_options).createImage)
          /\ RecordPack(pack_options)

generate ==
    /\ engine.gen < MaxGen
    /\ \E pack_options \in PackOptionsSet :
          /\ Enter("generate", PackOptions_convert(pack_options).createImage)
          /\ RecordPack(pack_options)

\* the closure's last answer asked the engine to stop
Cancelled == lastCall.made /\ ~lastCall.did.result

\* during an engine call: the engine invokes the registered function with
\* the registered user_data; the closure answers either way, and the engine
\* does not report again once it was asked to stop
EngineProgress ==
    /\ wrapper = "alive"
    /\ pc.op \in PhaseOps
    /\ engine.progressFunc
    /\ pc.calls < MaxInvocations
    /\ ~Cancelled
    /\ \E category \in PhaseCategories(pc.op), progress \in Percentages,
          closure_result \in BOOLEAN :
          LET user_data == engine.progressUserData
              did == progress_callback(category, progress, user_data,
                                       closure_result)
          IN  /\ lastCall' =
                    [made |-> TRUE,
                     input |-> [category |-> category, progress |-> progress,
                                user_data |-> user_data,
                                closure_result |-> closure_result],
                     did |-> did,
                     useAfterFree |-> boxes[did.closure].state # "live"]
              /\ boxes' = IF did.dropped THEN FreeBox(boxes, did.closure)
                          ELSE boxes
              /\ pc' = [pc EXCEPT !.calls = @ + 1]
    /\ UNCHANGED <<seen, sub, wrapper, handle, self_progress_callback, engine,
                   atlas, ret, held, lastPack>>

\* the engine call returns: a chart computation has freed the output, a
\* packing has freed it and published the next generation (nothing when the
\* closure cancelled the call or there is nothing to pack)
EngineReturn ==
    /\ wrapper = "alive"
    /\ pc.op \in PhaseOps
    /\ IF pc.op = "add_mesh_join"
       THEN /\ engine' = [engine EXCEPT !.unjoined = FALSE]
            /\ UNCHANGED atlas
       ELSE \E k \in 1..MaxAtlases :
              LET g == engine.gen + 1
                  computed ==
                      IF pc.op = "pack_charts" THEN engine.chartsComputed
                      ELSE engine.meshes > 0 /\ ~Cancelled
                  packs ==
                      /\ pc.op \in {"pack_charts", "generate"}
                      /\ ~Cancelled
                      /\ (computed \/ engine.uvMeshes > 0)
              IN  /\ engine' = [engine EXCEPT
                                    !.gen = g,
                                    !.computeRuns =
                                        @ \/ pc.op \in {"compute_charts",
                                                         "generate"},
                                    !.chartsComputed = computed]
                  /\ atlas' =
                        IF packs
                        THEN EnginePacked(g, engine.meshes + engine.uvMeshes,
                                          k, pc.createImage)
                        ELSE EmptyAtlas
    /\ pc' = Idle
    /\ lastCall' = NoCall
    /\ UNCHANGED <<seen, sub, wrapper, handle, self_progress_callback, boxes,
                   ret, held, lastPack>>

\* a slip: the new box is not kept in the wrapper and dies with the call
Xatlas_store_callback_NotKept(bx, old, callback) ==
    [bx EXCEPT ![callback] = [state |-> "freed", frees |-> 1]]

\* let callback = Box::pin(Box::new(callback));
\* self.progress_callback = Some(callback);
\* the boxes afterwards: the new one lives, the one it replaces is dropped
Xatlas_store_callback(bx, old, callback) ==
    FreeBox([bx EXCEPT ![callback] = [state |-> "live", frees |-> 0]], old)

\* set_progress_callback up to the assignment of self.progress_callback
set_progress_callback_store ==
    /\ Callable
    /\ Cardinality(AllocatedBoxes) < MaxCallbacks
    /\ LET callback == Cardinality(AllocatedBoxes) + 1
       IN  /\ boxes' = Xatlas_store_callback(boxes, self_progress_callback,
                                             callback)
           /\ self_progress_callback' = callback
           /\ pc' = [Idle EXCEPT !.op = "set_progress_callback",
                                 !.user_data = callback]
    /\ ret' = NoRet
    /\ UNCHANGED <<seen, sub, wrapper, handle, engine, atlas, lastCall, held,
                   lastPack>>

\* set_progress_callback: the call of xatlas::SetProgressCallback
set_progress_callback_register ==
    /\ wrapper = "alive"
    /\ pc.op = "set_progress_callback"
    /\ engine' = EngineSetProgressCallback(engine, pc.user_data)
    /\ pc' = Idle
    /\ UNCHANGED <<seen, sub, wrapper, handle, self_progress_callback, boxes,
                   atlas, lastCall, ret, held, lastPack>>

\* a slip: no Drop implementation, the handle is never destroyed
Drop_drop_Leak(e, h) == e

\* impl Drop for Xatlas: xatlas::Destroy(self.handle)
Drop_drop(e, h) == EngineDestroy(e, h)

\* the wrapper goes out of scope: Drop::drop runs, then the fields are
\* dropped, the boxed closure among them
Teardown ==
    /\ Callable
    /\ engine' = Drop_drop(engine, handle)
    /\ boxes' = FreeBox(boxes, self_progress_callback)
    /\ self_progress_callback' = 0
    /\ wrapper' = "dropped"
    /\ atlas' = EmptyAtlas
    /\ ret' = NoRet
    /\ UNCHANGED <<seen, sub, handle, pc, lastCall, held, lastPack>>

\* the caller lets go of the view it held
ForgetView ==
    /\ held # NoView
    /\ held' = NoView
    /\ UNCHANGED <<seen, sub, wrapper, handle, self_progress_callback, boxes,
                   engine, atlas, pc, lastCall, ret, lastPack>>

vars == <<seen, sub, lifeVars>>

\* the state after Xatlas::new()
Init ==
    /\ seen = {}
    /\ sub = NoSubmission
    /\ wrapper = "alive"
    /\ handle = xatlas_Create
    /\ self_progress_callback = 0
    /\ boxes = [b \in Boxes |-> [state |-> "unallocated", frees |-> 0]]
    /\ engine = [live |-> TRUE, destroyed |-> <<>>, usedAfterDestroy |-> FALSE,
                 progressFunc |-> FALSE, progressUserData |-> 0,
                 meshes |-> 0, uvMeshes |-> 0, unjoined |-> FALSE,
                 computeRuns |-> FALSE, chartsComputed |-> FALSE, gen |-> 0]
    /\ atlas = EmptyAtlas
    /\ pc = Idle
    /\ lastCall = NoCall
    /\ ret = NoRet
    /\ held = NoView
    /\ lastPack = [called |-> FALSE, options |-> PackOptions_default]

NextStatus == TranslateStatus
SpecStatus == Init /\ [][NextStatus]_vars

NextDecl == SubmitMesh \/ SubmitMeshWithHint \/ SubmitUvMesh
SpecDecl == Init /\ [][NextDecl]_vars

Next ==
    \/ Accessor \/ utilization \/ image \/ meshes \/ meshes_null
    \/ AddMesh \/ AddMeshWithHint \/ AddUvMesh
    \/ add_mesh_join \/ compute_charts \/ pack_charts \/ generate
    \/ EngineProgress \/ EngineReturn
    \/ set_progress_callback_store \/ set_progress_callback_register
    \/ Teardown \/ ForgetView
Spec == Init /\ [][Next]_vars

(***************************************************************************)
(* Properties of the wrapper's life (Spec).                                *)
(***************************************************************************)
\* C1: Destroy is called exactly once, on the handle Create returned, at
\* teardown and not before; no engine call or field read goes through the
\* handle after Destroy.
C1_DestroyedOnceAtTeardown ==
    /\ handle = xatlas_Create
    /\ wrapper = "alive" => engine.live /\ engine.destroyed = <<>>
    /\ wrapper = "dropped" => ~engine.live /\ engine.destroyed = <<handle>>
    /\ ~engine.usedAfterDestroy

\* a wrapper that submitted a mesh, registered a closure and generated has
\* been torn down
C1_Witness ==
    /\ wrapper = "dropped"
    /\ engine.meshes > 0
    /\ engine.gen > 0
    /\ AllocatedBoxes # {}

\* C2: every view the caller can still read refers to the current, live
\* buffers of the handle: none survives a later compute_charts, pack_charts
\* or generate, or the handle's destruction.
C2_ViewsReferToLiveBuffers ==
    held # NoView =>
        /\ wrapper = "alive"
        /\ engine.live
        /\ held.gen = engine.gen

\* C3: the box of a registered closure is alive whenever the engine holds
\* its address and an engine call can run or is running; the trampoline
\* never runs on a freed box; a box is freed at most once, and exactly once
\* when it is replaced or the wrapper is torn down.
C3_ClosureBoxOutlivesRegistration ==
    /\ (engine.live /\ engine.progressFunc /\ pc.op # "set_progress_callback")
          => boxes[engine.progressUserData].state = "live"
    /\ ~lastCall.useAfterFree
    /\ \A b \in Boxes :
          /\ boxes[b].frees <= 1
          /\ boxes[b].state = "live" <=>
                (wrapper # "dropped" /\ b = self_progress_callback)
          /\ boxes[b].state = "freed" => boxes[b].frees = 1

\* the engine is invoking the second closure after the first was replaced
\* and freed
C3_Witness ==
    /\ pc.op \in PhaseOps
    /\ lastCall.made
    /\ \E b \in Boxes : boxes[b].state = "freed"
    /\ boxes[engine.progressUserData].state = "live"

\* C4: an invocation of progress_callback calls the registered closure
\* exactly once, with the category translated to its namesake and the same
\* percentage, returns the closure's boolean, and leaves the closure
\* registered, alive and callable.
C4_TrampolineForwardsAndBorrows ==
    lastCall.made =>
        /\ lastCall.did.closure = lastCall.input.user_data
        /\ lastCall.did.closure = self_progress_callback
        /\ lastCall.did.closure = engine.progressUserData
        /\ lastCall.did.calls = 1
        /\ lastCall.input.category = ProgressCategory_AddMesh
              => lastCall.did.category = "AddMesh"
        /\ lastCall.input.category = ProgressCategory_ComputeCharts
              => lastCall.did.category = "ComputeCharts"
        /\ lastCall.input.category = ProgressCategory_PackCharts
              => lastCall.did.category = "PackCharts"
        /\ lastCall.input.category = ProgressCategory_BuildOutputMeshes
              => lastCall.did.category = "BuildOutputMeshes"
        /\ lastCall.did.progress = lastCall.input.progress
        /\ lastCall.did.result = lastCall.input.closure_result
        /\ ~lastCall.did.dropped
        /\ boxes[lastCall.did.closure] = [state |-> "live", frees |-> 0]

\* the closure has been invoked as often as one call allows, the last time
\* for output-mesh building, answering false
C4_Witness ==
    /\ lastCall.made
    /\ pc.calls = MaxInvocations
    /\ lastCall.input.category = ProgressCategory_BuildOutputMeshes
    /\ ~lastCall.did.result

\* C9: what meshes(), image() and utilization() return has the extents the
\* handle reports when they are called, and borrows the buffers of the
\* handle's current generation.
C9_ViewExtentsMatchHandleCounts ==
    /\ ret.op = "meshes" =>
          /\ Len(ret.val) = atlas.meshCount
          /\ \A i \in 1..Len(ret.val) :
                LET m == ret.val[i]
                    h == atlas.meshes[i]
                IN  /\ Len(m.chart_array) = h.chartCount
                    /\ m.vertex_array.len = h.vertexCount
                    /\ m.index_array.len = h.indexCount
                    /\ m.index_array.gen = engine.gen
                    /\ \A c \in 1..Len(m.chart_array) :
                          /\ m.chart_array[c].face_array.len =
                                h.chartArray[c].faceCount
                          /\ m.chart_array[c].face_array.gen = engine.gen
    /\ (ret.op = "utilization" /\ ret.val # None) =>
          /\ ret.val.v.len = atlas.atlasCount
          /\ ret.val.v.gen = engine.gen
    /\ (ret.op = "image" /\ ret.val # None) =>
          /\ ret.val.v.len = atlas.atlasCount * atlas.width * atlas.height
          /\ ret.val.v.gen = engine.gen

\* image() has returned the image of a regeneration, and the caller holds
\* the view
C9_Witness ==
    /\ ret.op = "image"
    /\ ret.val # None
    /\ engine.gen >= 2
    /\ held.kind = "image"
    /\ held = Borrowed("image", ret.val.v)

\* C10: image() is None whenever the most recent packing call did not ask
\* for an image or no packing has run, and utilization() is None when no
\* packing has run; neither is Some of an empty slice then.
C10_AbsentWhenNotRequested ==
    /\ (ret.op = "image"
            /\ (~lastPack.called \/ ~lastPack.options.create_image))
          => ret.val = None
    /\ (ret.op = "utilization" /\ ~lastPack.called) => ret.val = None

\* image() has returned None after a packing without an image, while the
\* caller still holds the image view of an earlier packing with one
C10_Witness ==
    /\ ret.op = "image"
    /\ ret.val = None
    /\ lastPack.called
    /\ ~lastPack.options.create_image
    /\ held.kind = "image"
    /\ held.gen < engine.gen
    /\ ~atlas.meshesNull

\* C11: the engine phases run in protocol order: compute_charts or generate
\* is inside the engine only when declarations have been submitted and,
\* where a mesh-count hint was used, joined; pack_charts is inside the engine
\* only when a chart computation has completed on the handle.
C11_PhasesInProtocolOrder ==
    /\ pc.op \in {"compute_charts", "generate"} =>
          /\ engine.meshes + engine.uvMeshes > 0
          /\ ~engine.unjoined
    /\ pc.op = "pack_charts" => engine.computeRuns

\* C12: every add_mesh, add_mesh_with_mesh_count_hint and add_uv_mesh call
\* returns Ok or one of the four error kinds for every declaration (stride 0,
\* empty data and any hint included), never panicking while it marshals, and
\* add_mesh(decl) has the results of add_mesh_with_mesh_count_hint(decl, 0).
C12_SubmissionsAlwaysReturn ==
    sub.op # "none" =>
        /\ sub.ret \in {Ok} \cup {Err(k) : k \in ErrorKinds}
        /\ sub.op = "add_mesh" =>
              {o.ret : o \in add_mesh(sub.decl)} =
                 {o.ret : o \in add_mesh_with_mesh_count_hint(sub.decl, 0)}

=============================================================================
